---------------------------- MODULE Spec2Model ----------------------------
(***************************************************************************)
(* A model of bot.py: the per-channel game-session engine of the Wordle    *)
(* and Spelling cogs (GameManager, WordleGame, SpellingGame, the restart   *)
(* sequence and the deadline sweep).                                       *)
(*                                                                         *)
(* A coroutine runs without interruption from one await to the next, so    *)
(* every action below is the code between two awaits of one handler.       *)
(* Consecutive awaits with no code between them are one await.  Session    *)
(* objects live on a heap, because a suspended handler keeps a reference   *)
(* to the object it read before the await while the session table may      *)
(* already name another one.  An awaited platform call (add_reaction,      *)
(* send, the typing pause) is taken to return.                             *)
(*                                                                         *)
(* Six specifications share the actions.  Spec is one channel with its     *)
(* messages, concede commands and deadline sweep, started on an empty      *)
(* disk.  SpecFleet is every guild's channel with guild joins and          *)
(* removals, the sweep and the end of the process, started on a disk an    *)
(* earlier run has left, with no messages.  SpecUnit is one session with   *)
(* the constructor, guess and the message handlers, where every call and   *)
(* every message is recorded with what it was given and what it returned.  *)
(* SpecBee is one Spelling session with guess, shuffle, winners_and_losers *)
(* and the constructor at several times of day.  SpecGuild is one channel  *)
(* whose guild removes and adds the bot while messages and restarts are    *)
(* under way.  SpecLive is two channels, one conceded and one guessing,    *)
(* with fair scheduling of the restart pause.                              *)
(***************************************************************************)
EXTENDS Integers, Sequences, FiniteSets, TLC

(***************************************************************************)
(* Bounds of the model.                                                    *)
(***************************************************************************)
NumChans   == 2      \* channels (one per guild) the cog can be registered in
NumBusy    == 1      \* of these, the channels that receive messages and commands
NumTasks   == 2      \* handlers that can be suspended at an await at once
MaxGuesses == 2      \* counted Wordle guesses per session
StartClock == 1800   \* wall clock (seconds) when the disk is still empty
Horizon    == 5      \* sampled instants from 2 s before the first deadline
EarlyWake  == 1      \* seconds the task loop can wake before a scheduled time

(***************************************************************************)
(* Program constants.                                                      *)
(***************************************************************************)
CONTINUE   == 0
FINISHED   == 1
RESTARTING == 2
MIN_LENGTH == 3
MAX_LENGTH == 7
ROOT_LENGTH == 10
HOUR       == 3600
DAY_HOURS  == 24
PAUSE      == 3
LEEWAY     == 1
None       == -1

Chans  == 1..NumChans
Busy   == 1..NumBusy
Tasks  == 1..NumTasks
ObjIds == 1..(NumChans + NumTasks + 1)

(***************************************************************************)
(* The corpus.  A letter is its index in ALPHABET, a word a sequence of    *)
(* letters.  Both lists are in the collation order the loader sorts them   *)
(* into.  0 stands for any character outside the alphabet.                 *)
(***************************************************************************)
ALPHABET == 1..33

voda       == <<3, 16, 5, 1>>
volos      == <<3, 16, 13, 16, 19>>
vor        == <<3, 16, 18>>
da         == <<5, 1>>
kod        == <<12, 16, 5>>
oslik      == <<16, 19, 13, 10, 12>>
skovorodka == <<19, 12, 16, 3, 16, 18, 16, 5, 12, 1>>
slava      == <<19, 13, 1, 3, 1>>
slovo      == <<19, 13, 16, 3, 16>>
ssora      == <<19, 19, 16, 18, 1>>
aaaaa      == <<1, 1, 1, 1, 1>>

common_words == <<volos, vor, kod, oslik, skovorodka, slava, slovo>>
all_words    == <<voda, volos, vor, da, kod, oslik, skovorodka, slava, slovo, ssora>>

Range(s) == {s[i] : i \in 1..Len(s)}

InList(w, list) == \E i \in 1..Len(list) : list[i] = w

common_words_by_length(n) == SelectSeq(common_words, LAMBDA w : Len(w) = n)

Count(s, x) == Cardinality({i \in 1..Len(s) : s[i] = x})

(***************************************************************************)
(* JSON documents, as json.dump writes them and json.load reads them.      *)
(* An object is the sequence of its <<key, value>> members in the order    *)
(* of the dict; an IntEnum member is written as its number, None as null.  *)
(***************************************************************************)
JNull      == [t |-> "null"]
JNum(n)    == [t |-> "num", v |-> n]
JStr(s)    == [t |-> "str", v |-> s]
JObj(mem)  == [t |-> "obj", v |-> mem]

Absent     == [t |-> "absent"]
Malformed  == [t |-> "malformed"]

\* A writer that loses what it is given, to show what the round trip owes
\* to the written values.
JValue_lossy(x) == JNull

JValue(x) == IF x = None THEN JNull ELSE JNum(x)

PyValue(j) == IF j.t = "null" THEN None ELSE j.v

JDict(d) == JObj([i \in 1..Len(d) |-> <<d[i][1], JValue(d[i][2])>>])

PyDict(j) == [i \in 1..Len(j.v) |-> <<j.v[i][1], PyValue(j.v[i][2])>>]

JGet(j, key) == LET i == CHOOSE i \in 1..Len(j.v) : j.v[i][1] = key IN j.v[i][2]

JHas(j, key) == \E i \in 1..Len(j.v) : j.v[i][1] = key


(***************************************************************************)
(* Python dicts, in insertion order: sequences of <<key, value>>.          *)
(***************************************************************************)
fromkeys(keys) == [i \in 1..Len(keys) |-> <<keys[i], None>>]

DictHas(d, k) == \E i \in 1..Len(d) : d[i][1] = k

DictGet(d, k) == LET i == CHOOSE i \in 1..Len(d) : d[i][1] = k IN d[i][2]

DictSet(d, k, x) == [i \in 1..Len(d) |-> IF d[i][1] = k THEN <<k, x>> ELSE d[i]]

DictValues(d) == [i \in 1..Len(d) |-> d[i][2]]

\* Python truthiness of an attribution: None and 0 are false.
Truthy(x) == x # None /\ x # 0

(***************************************************************************)
(* WordleGame                                                              *)
(***************************************************************************)
COLOR_ABSENT  == "absent"
COLOR_PRESENT == "present"
COLOR_CORRECT == "correct"
NoFile        == <<>>

\* The lengths LENGTH_WEIGHTS gives a weight other than 0.
WeightedLengths == 4..8

\* The sessions WordleGame() can create: random.choice over a non-empty
\* bucket of a weighted length.
WordleGame_new ==
    {[type |-> "W", state |-> CONTINUE, guesses |-> 0, solution |-> w] :
        w \in {x \in Range(common_words) : Len(x) \in WeightedLengths}}

\* The first pass left out, to show what the Correct positions owe to it.
Pass1_skipped(i, guess, solution, tally, colors) ==
    [tally |-> tally, colors |-> colors]

RECURSIVE Pass1(_, _, _, _, _)
Pass1(i, guess, solution, tally, colors) ==
    IF i > Len(guess) THEN [tally |-> tally, colors |-> colors]
    ELSE IF guess[i] = solution[i]
         THEN Pass1(i + 1, guess, solution,
                    [tally EXCEPT ![guess[i]] = @ - 1],
                    [colors EXCEPT ![i] = COLOR_CORRECT])
         ELSE Pass1(i + 1, guess, solution, tally, colors)

\* The second pass without the tally, to show what the Present positions
\* owe to it.
RECURSIVE Pass2_untallied(_, _, _, _, _)
Pass2_untallied(i, guess, solution, tally, colors) ==
    IF i > Len(guess) THEN colors
    ELSE IF guess[i] \in DOMAIN tally /\ guess[i] # solution[i]
         THEN Pass2_untallied(i + 1, guess, solution, tally,
                              [colors EXCEPT ![i] = COLOR_PRESENT])
         ELSE Pass2_untallied(i + 1, guess, solution, tally, colors)

RECURSIVE Pass2(_, _, _, _, _)
Pass2(i, guess, solution, tally, colors) ==
    IF i > Len(guess) THEN colors
    ELSE IF /\ guess[i] \in DOMAIN tally
            /\ tally[guess[i]] > 0
            /\ guess[i] # solution[i]
         THEN Pass2(i + 1, guess, solution,
                    [tally EXCEPT ![guess[i]] = @ - 1],
                    [colors EXCEPT ![i] = COLOR_PRESENT])
         ELSE Pass2(i + 1, guess, solution, tally, colors)

\* The colours before either pass, to show what a classification owes to
\* the passes.
Classify_initial(solution, guess) == [i \in 1..Len(solution) |-> COLOR_ABSENT]

Classify(solution, guess) ==
    LET tally0 == [letter \in Range(solution) |-> Count(solution, letter)]
        p1     == Pass1(1, guess, solution, tally0,
                        [i \in 1..Len(solution) |-> COLOR_ABSENT])
    IN  Pass2(1, guess, solution, p1.tally, p1.colors)

\* The flair of a winning guess: guesses <= 0.75 * len, guesses <= 2.0 * len.
Flair(guesses, solution) ==
    IF 4 * guesses <= 3 * Len(solution) THEN "astonished"
    ELSE IF guesses <= 2 * Len(solution) THEN "candy"
    ELSE "none"

\* A guess that counts whatever it is given, to show what the effect of a
\* rejected guess owes to the early returns.
WordleGame_guess_counting(g, guess) ==
    [game |-> [g EXCEPT !.guesses = @ + 1,
                        !.state = IF guess = g.solution THEN FINISHED ELSE @],
     emoji |-> "none", msg |-> guess = g.solution,
     file_obj |-> [i \in 1..Len(g.solution) |-> COLOR_ABSENT]]

\* WordleGame.guess: the session afterwards and (emoji, msg, file_obj).
WordleGame_guess(g, guess) ==
    IF Len(guess) # Len(g.solution)
    THEN [game |-> g, emoji |-> "wrong_length", msg |-> FALSE, file_obj |-> NoFile]
    ELSE IF ~InList(guess, all_words)
    THEN [game |-> g, emoji |-> "unknown", msg |-> FALSE, file_obj |-> NoFile]
    ELSE LET colors == Classify(g.solution, guess)
             n      == g.guesses + 1
         IN  IF guess # g.solution
             THEN [game |-> [g EXCEPT !.guesses = n],
                   emoji |-> "none", msg |-> FALSE, file_obj |-> colors]
             ELSE [game |-> [g EXCEPT !.guesses = n, !.state = FINISHED],
                   emoji |-> Flair(n, g.solution), msg |-> TRUE,
                   file_obj |-> colors]

(***************************************************************************)
(* SpellingGame                                                            *)
(***************************************************************************)
\* int((now.replace(microsecond=0, second=0, minute=0) + 24 h).timestamp())
Deadline(now) == (now - (now % HOUR)) + DAY_HOURS * HOUR

\* The test of line 448 alone, without the count of line 449, to show what
\* the choice of words owes to the count.
Qualifies_by_letter(word, letters) ==
    \A i \in 1..Len(word) : word[i] \in Range(letters)

Qualifies(word, letters) ==
    /\ \A i \in 1..Len(word) : word[i] \in Range(letters)
    /\ ~\E i \in 1..Len(letters) :
            Count(letters, letters[i]) < Count(word, letters[i])

InWindow(word) == MIN_LENGTH <= Len(word) /\ Len(word) <= MAX_LENGTH

SpellingGame_init(now, root_word) ==
    LET solution_words ==
            SelectSeq(all_words, LAMBDA w : /\ InWindow(w)
                                            /\ Qualifies(w, root_word)
                                            /\ InList(w, common_words))
        acceptable_words ==
            SelectSeq(all_words, LAMBDA w : /\ InWindow(w)
                                            /\ Qualifies(w, root_word)
                                            /\ ~InList(w, common_words))
    IN  [type |-> "S", state |-> CONTINUE, deadline |-> Deadline(now),
         root_word |-> root_word,
         words |-> fromkeys(solution_words),
         other_words |-> fromkeys(acceptable_words)]

\* The sessions SpellingGame() can create at time now.
SpellingGame_new(now) ==
    {SpellingGame_init(now, r) : r \in Range(common_words_by_length(ROOT_LENGTH))}

\* A guess that finishes the session with any claim of a solution word, to
\* show what the end of a session owes to the test of line 466.
SpellingGame_guess_hasty(g, guess, author) ==
    IF DictHas(g.words, guess) /\ DictGet(g.words, guess) = None
    THEN [game |-> [g EXCEPT !.words = DictSet(@, guess, author), !.state = FINISHED],
          emoji |-> "check"]
    ELSE [game |-> g, emoji |-> "repeat"]

\* A guess that gives a claimed word to whoever guesses it next, to show
\* what the first claimer owes to the tests of lines 462 and 471.
SpellingGame_guess_reclaiming(g, guess, author) ==
    IF DictHas(g.words, guess)
    THEN [game |-> [g EXCEPT !.words = DictSet(@, guess, author)], emoji |-> "repeat"]
    ELSE IF DictHas(g.other_words, guess)
    THEN [game |-> [g EXCEPT !.other_words = DictSet(@, guess, author)], emoji |-> "repeat"]
    ELSE [game |-> g, emoji |-> "unknown"]

\* SpellingGame.guess: the session afterwards and the emoji.
SpellingGame_guess(g, guess, author) ==
    IF DictHas(g.words, guess)
    THEN IF DictGet(g.words, guess) # None
         THEN [game |-> g, emoji |-> "repeat"]
         ELSE LET words == DictSet(g.words, guess, author)
                  done  == \A i \in 1..Len(words) : Truthy(words[i][2])
              IN  [game |-> [g EXCEPT !.words = words,
                                      !.state = IF done THEN FINISHED ELSE @],
                   emoji |-> "check"]
    ELSE IF DictHas(g.other_words, guess)
    THEN IF DictGet(g.other_words, guess) # None
         THEN [game |-> g, emoji |-> "repeat"]
         ELSE [game |-> [g EXCEPT !.other_words = DictSet(@, guess, author)],
               emoji |-> "books"]
    ELSE IF InList(guess, all_words)
    THEN [game |-> g, emoji |-> "cross"]
    ELSE [game |-> g, emoji |-> "unknown"]

(***************************************************************************)
(* The guild: who is a member, and who has the Native role.                *)
(***************************************************************************)
MemberIds == {1001, 1002}

\* The members who write in the game channels.
Authors == {1001}

HasNativeRole(id) == id = 1001

DisplayName(id) == IF id = 1001 THEN "member1001" ELSE "member1002"

NATIVE_NAMES  == <<"native1", "native2", "native3", "native4", "native5", "native6">>
LEARNER_NAMES == <<"learner1", "learner2", "learner3", "learner4", "learner5">>

Team(name, score, members) == [name |-> name, score |-> score, members |-> members]

NoTeam == [name |-> "nobody", score |-> 0, members |-> {}]

\* The loop of winners_and_losers over words.values(), from index i on;
\* guild is the set of the guild's members when it runs.
RECURSIVE Tally(_, _, _, _)
Tally(ids, i, acc, guild) ==
    IF i > Len(ids) THEN acc
    ELSE LET user_id == ids[i] IN
         IF ~Truthy(user_id) THEN Tally(ids, i + 1, acc, guild)
         ELSE IF 1 <= user_id /\ user_id < 20
         THEN Tally(ids, i + 1,
                    [acc EXCEPT !.natives = @ \cup {NATIVE_NAMES[user_id]},
                                !.natives_score = @ + 1], guild)
         ELSE IF 101 <= user_id /\ user_id < 120
         THEN Tally(ids, i + 1,
                    [acc EXCEPT !.learners = @ \cup {LEARNER_NAMES[user_id - 100]},
                                !.learners_score = @ + 1], guild)
         ELSE IF user_id \notin guild THEN Tally(ids, i + 1, acc, guild)
         ELSE IF HasNativeRole(user_id)
         THEN Tally(ids, i + 1,
                    [acc EXCEPT !.natives = @ \cup {DisplayName(user_id)},
                                !.natives_score = @ + 1], guild)
         ELSE Tally(ids, i + 1,
                    [acc EXCEPT !.learners = @ \cup {DisplayName(user_id)},
                                !.learners_score = @ + 1], guild)

\* SpellingGame.winners_and_losers: found is FALSE for (None, None).
\* The teams with the natives first on equal scores, to show what the
\* tie-break owes to the comparison of line 520.
winners_and_losers_natives_first(g, guild) ==
    LET acc == Tally(DictValues(g.words \o g.other_words), 1,
                     [learners_score |-> 0, learners |-> {},
                      natives_score |-> 0, natives |-> {}], guild)
        natives_team  == Team("natives", acc.natives_score, acc.natives)
        learners_team == Team("learners", acc.learners_score, acc.learners)
    IN  IF acc.natives_score = 0 /\ acc.learners_score = 0
        THEN [found |-> FALSE, winners |-> NoTeam, losers |-> NoTeam]
        ELSE IF acc.learners_score > acc.natives_score
        THEN [found |-> TRUE, winners |-> learners_team, losers |-> natives_team]
        ELSE [found |-> TRUE, winners |-> natives_team, losers |-> learners_team]

winners_and_losers(g, guild) ==
    LET acc == Tally(DictValues(g.words \o g.other_words), 1,
                     [learners_score |-> 0, learners |-> {},
                      natives_score |-> 0, natives |-> {}], guild)
        natives_team  == Team("natives", acc.natives_score, acc.natives)
        learners_team == Team("learners", acc.learners_score, acc.learners)
    IN  IF acc.natives_score = 0 /\ acc.learners_score = 0
        THEN [found |-> FALSE, winners |-> NoTeam, losers |-> NoTeam]
        ELSE IF acc.learners_score >= acc.natives_score
        THEN [found |-> TRUE, winners |-> learners_team, losers |-> natives_team]
        ELSE [found |-> TRUE, winners |-> natives_team, losers |-> learners_team]

(***************************************************************************)
(* json.dump(game.__dict__) and game_type(json.load(f)).                   *)
(***************************************************************************)
json_dump(g) ==
    IF g.type = "W"
    THEN JObj(<< <<"state", JNum(g.state)>>,
                 <<"guesses", JNum(g.guesses)>>,
                 <<"solution", JStr(g.solution)>> >>)
    ELSE JObj(<< <<"state", JNum(g.state)>>,
                 <<"deadline", JNum(g.deadline)>>,
                 <<"root_word", JStr(g.root_word)>>,
                 <<"words", JDict(g.words)>>,
                 <<"other_words", JDict(g.other_words)>> >>)

\* self.__dict__ = resume, for a document that is a non-empty object.
FromDict(type, j) ==
    IF type = "W"
    THEN [type |-> "W", state |-> JGet(j, "state").v,
          guesses |-> JGet(j, "guesses").v,
          solution |-> JGet(j, "solution").v]
    ELSE [type |-> "S", state |-> JGet(j, "state").v,
          deadline |-> JGet(j, "deadline").v,
          root_word |-> JGet(j, "root_word").v,
          words |-> PyDict(JGet(j, "words")),
          other_words |-> PyDict(JGet(j, "other_words"))]

\* game_type(resume): a falsy resume (an empty object) gives a new session.
Resume(type, j, fresh) == IF Len(j.v) = 0 THEN fresh ELSE FromDict(type, j)


(***************************************************************************)
(* The state.                                                              *)
(***************************************************************************)
VARIABLES
    game_type,  \* GameManager.game_type: "W" (WordleGame) or "S" (SpellingGame)
    guilds,     \* bot.guilds, each guild named by its game channel
    channels,   \* GameManager.channels
    games,      \* GameManager.games: channel -> object id or None
    heap,       \* the session objects
    files,      \* "<channel>.json"
    previous,   \* "<channel>-previousgame.json"
    clock,      \* datetime.now(), in whole seconds
    tasks,      \* the suspended message and command handlers
    sweep,      \* the check_deadline coroutine
    loader,     \* the cog's construction and cog_load
    call        \* the last call made on a session by itself, and what it returned

vars == <<game_type, guilds, channels, games, heap, files, previous, clock,
          tasks, sweep, loader, call>>

NoObj == [type |-> "free"]

\* No call has been made on a session by itself.
NoCall == [op |-> "none"]

\* A handler: where it is suspended and the locals it resumes with (game;
\* msg and file_obj as booleans; the count guess() left; the word guess()
\* attributed and to whom; the time its sleep ends).
Idle == [pc |-> "idle", chan |-> 0, game |-> None, msg |-> FALSE, file |-> FALSE,
         count |-> 0, claim |-> <<>>, author |-> 0, wake |-> 0]

\* next is the time of the next scheduled iteration; 0 before the run that
\* before_check_deadline makes.
SweepIdle(next) == [pc |-> "idle", now |-> 0, idx |-> 0, chan |-> 0, wake |-> 0,
                    next |-> next]

Loader(pc, idx) == [pc |-> pc, idx |-> idx]

\* The part of the state the GameManager and the cogs' methods work on.
Store == [channels |-> channels, games |-> games, heap |-> heap,
          files |-> files, previous |-> previous]

SetKey(f, k, x) == [y \in DOMAIN f \cup {k} |-> IF y = k THEN x ELSE f[y]]

DropKey(f, k) == [y \in DOMAIN f \ {k} |-> f[y]]

\* list.remove: the first occurrence.
ListRemove(list, x) ==
    LET i == CHOOSE i \in 1..Len(list) :
                 list[i] = x /\ \A j \in 1..(i - 1) : list[j] # x
    IN  [j \in 1..(Len(list) - 1) |-> IF j < i THEN list[j] ELSE list[j + 1]]

\* The address of a newly constructed object.
NewObj(s) == CHOOSE o \in ObjIds :
                 s.heap[o] = NoObj /\ \A p \in ObjIds : s.heap[p] = NoObj => o <= p

(***************************************************************************)
(* GameManager                                                             *)
(***************************************************************************)
get_game(s, c) == IF c \in DOMAIN s.games THEN s.games[c] ELSE None

update_game(s, c, o) == [s EXCEPT !.files[c] = json_dump(s.heap[o])]

add_game(s, c, g) ==
    LET o == NewObj(s)
    IN  update_game([s EXCEPT !.heap[o] = g, !.games = SetKey(@, c, o)], c, o)

\* add_channel without the os.remove of line 75, to show what the handling
\* of an unreadable snapshot owes to it.
add_channel_keeps_file(s, c, type, fresh) ==
    LET s1 == [s EXCEPT !.channels = Append(@, c)]
    IN  IF s.files[c] \in {Absent, Malformed}
        THEN [s1 EXCEPT !.games = SetKey(@, c, None)]
        ELSE LET o == NewObj(s)
             IN  [s1 EXCEPT !.heap[o] = Resume(type, s.files[c], fresh),
                            !.games = SetKey(@, c, o)]

\* fresh is the session the constructor creates when resume is falsy.
add_channel(s, c, type, fresh) ==
    LET s1 == [s EXCEPT !.channels = Append(@, c)]
    IN  IF s.files[c] = Absent
        THEN [s1 EXCEPT !.games = SetKey(@, c, None)]
        ELSE IF s.files[c] = Malformed
        THEN [s1 EXCEPT !.files[c] = Absent, !.games = SetKey(@, c, None)]
        ELSE LET o == NewObj(s)
             IN  [s1 EXCEPT !.heap[o] = Resume(type, s.files[c], fresh),
                            !.games = SetKey(@, c, o)]

\* remove_channel without the os.remove of line 87, to show what the end of
\* a snapshot owes to it.
remove_channel_keeps_file(s, c) ==
    IF c \in Range(s.channels)
    THEN [s EXCEPT !.channels = ListRemove(@, c), !.games = DropKey(@, c)]
    ELSE s

remove_channel(s, c) ==
    LET s1 == IF c \in Range(s.channels)
              THEN [s EXCEPT !.channels = ListRemove(@, c),
                             !.games = DropKey(@, c)]
              ELSE s
    IN  [s1 EXCEPT !.files[c] = Absent]

(***************************************************************************)
(* The restart sequence of the two cogs, up to its first await, and the    *)
(* part after the pause.                                                   *)
(***************************************************************************)
\* Wordle.stop_game up to "async with typing(): await asyncio.sleep(3)".
Wordle_stop_game(s, c) ==
    LET o == get_game(s, c)
    IN  IF o = None THEN [s |-> s, paused |-> FALSE]
        ELSE IF s.heap[o].state = RESTARTING THEN [s |-> s, paused |-> FALSE]
        ELSE [s |-> update_game([s EXCEPT !.heap[o].state = RESTARTING], c, o),
              paused |-> TRUE]

\* Spelling.stop_game up to "await send(msg, embed=embed)"; the pause follows
\* that await with no code between.
Spelling_stop_game(s, c, now) ==
    LET o == get_game(s, c)
    IN  IF o = None THEN [s |-> s, paused |-> FALSE]
        ELSE IF s.heap[o].state = RESTARTING THEN [s |-> s, paused |-> FALSE]
        ELSE LET s1 == update_game([s EXCEPT !.heap[o].state = RESTARTING], c, o)
                 wl == winners_and_losers(s1.heap[o], MemberIds)
             IN  [s |-> IF wl.found
                        THEN [s1 EXCEPT !.previous[c] =
                                 [t |-> "previous", winners |-> wl.winners,
                                  losers |-> wl.losers, timestamp |-> now,
                                  game |-> json_dump(s1.heap[o])]]
                        ELSE s1,
                  paused |-> TRUE]

\* stop_game without the test of lines 278 and 790, to show what the
\* re-entrancy properties owe to that test.
stop_game_unguarded(s, c, type, now) ==
    LET o == get_game(s, c)
    IN  IF o = None THEN [s |-> s, paused |-> FALSE]
        ELSE [s |-> update_game([s EXCEPT !.heap[o].state = RESTARTING], c, o),
              paused |-> TRUE]

stop_game(s, c, type, now) ==
    IF type = "W" THEN Wordle_stop_game(s, c) ELSE Spelling_stop_game(s, c, now)

\* start_game up to its "await send": g is the session the constructor made.
start_game(s, c, g) ==
    IF c \notin Range(s.channels) THEN s ELSE add_game(s, c, g)

\* The sessions game_type() can create at time now.
NewGames(type, now) == IF type = "W" THEN WordleGame_new ELSE SpellingGame_new(now)


(***************************************************************************)
(* Messages.  A content is the list of its whitespace-separated tokens; a  *)
(* capital letter is its small letter plus 100.                            *)
(***************************************************************************)
Contents == {<<slovo>>, <<slava>>, <<ssora>>, <<vor>>, <<kod>>, <<voda>>,
             <<aaaaa>>, << <<103, 16, 18>> >>, <<>>, <<vor, kod>>,
             << <<19, 0, 15>> >>}

Lower(ch) == IF ch > 100 THEN ch - 100 ELSE ch

\* message.content.strip().lower(), for a content of at most one token.
StripLower(content) ==
    IF Len(content) = 0 THEN <<>>
    ELSE [i \in 1..Len(content[1]) |-> Lower(content[1][i])]

NOT_CYRILLIC_RE(guess) == \E i \in 1..Len(guess) : guess[i] \notin ALPHABET

(***************************************************************************)
(* Time.  The clock is read by the Spelling cog only; it moves from one    *)
(* sampled instant to a later one.                                         *)
(***************************************************************************)
\* The instants sampled while messages are handled: the start, the first
\* instant a deadline can be enforced at, and the end of a pause begun then.
EnginePoints == {StartClock, Deadline(StartClock) - LEEWAY,
                 Deadline(StartClock) - LEEWAY + PAUSE}

\* The instants sampled around the first deadline.
FleetPoints == {StartClock} \cup {Deadline(StartClock) - 2 + k : k \in 0..Horizon}

\* The first whole hour after now: the next entry of CHECK_DEADLINE_TIMES.
NextHour(now) == (now - (now % HOUR)) + HOUR

\* When "await asyncio.sleep(3)" can return.  The Wordle cog never reads
\* the clock, so its pause is an await like any other.
Wake(type, now) == IF type = "S" THEN now + PAUSE ELSE 0

(***************************************************************************)
(* Garbage collection: an object no table entry and no suspended handler   *)
(* refers to is freed, so that an address names one live object.           *)
(***************************************************************************)
Refs(g, tk) == {g[c] : c \in DOMAIN g} \cup {tk[t].game : t \in Tasks}

Commit(s, tk, sw, ld) ==
    /\ tasks' = tk
    /\ sweep' = sw
    /\ loader' = ld
    /\ channels' = s.channels
    /\ games' = s.games
    /\ files' = s.files
    /\ previous' = s.previous
    /\ heap' = [o \in ObjIds |-> IF o \in Refs(s.games, tk) THEN s.heap[o] ELSE NoObj]

\* Handlers are interchangeable: a new one takes the first free slot.
FreeTask == CHOOSE t \in Tasks :
                tasks[t].pc = "idle" /\ \A u \in Tasks : tasks[u].pc = "idle" => t <= u

HasFreeTask == \E t \in Tasks : tasks[t].pc = "idle"

Paused(c, type, now) == [Idle EXCEPT !.pc = "pause", !.chan = c, !.wake = Wake(type, now)]

IsContinue(s, c) ==
    /\ get_game(s, c) # None
    /\ s.heap[get_game(s, c)].state = CONTINUE

(***************************************************************************)
(* Construction and cog_load.  The listeners and commands of a cog are     *)
(* registered when cog_load has returned; check_deadline is started by     *)
(* the constructor.                                                        *)
(***************************************************************************)
RECURSIVE guild_setup(_, _, _, _, _)
guild_setup(s, list, i, type, fresh) ==
    IF i > Len(list) THEN s
    ELSE guild_setup(add_channel(s, list[i], type, fresh), list, i + 1, type, fresh)

\* The channels cog_load has still to visit that need a new session.
ToLoad(s, idx) ==
    {j \in (idx + 1)..Len(s.channels) : ~IsContinue(s, s.channels[j])}

Min(S) == CHOOSE x \in S : \A y \in S : x <= y

\* cog_load from list position idx to its next await or its end.
cog_load(s, idx, g) ==
    IF ToLoad(s, idx) = {} THEN [s |-> s, loader |-> Loader("ready", 0)]
    ELSE LET j == Min(ToLoad(s, idx))
         IN  [s |-> start_game(s, s.channels[j], g), loader |-> Loader("announce", j)]

Cog_init ==
    /\ loader.pc = "init"
    /\ \E g \in NewGames(game_type, clock), fresh \in NewGames(game_type, clock) :
           LET r == cog_load(guild_setup(Store, guilds, 1, game_type, fresh), 0, g)
           IN  Commit(r.s, tasks, sweep, r.loader)
    /\ UNCHANGED <<call, game_type, guilds, clock>>

Cog_load_resume ==
    /\ loader.pc = "announce"
    /\ \E g \in NewGames(game_type, clock) :
           LET r == cog_load(Store, loader.idx, g)
           IN  Commit(r.s, tasks, sweep, r.loader)
    /\ UNCHANGED <<call, game_type, guilds, clock>>

(***************************************************************************)
(* Guild events.                                                           *)
(***************************************************************************)
on_guild_join(c) ==
    /\ loader.pc = "ready"
    /\ c \notin Range(guilds)
    /\ guilds' = Append(guilds, c)
    /\ \E g \in NewGames(game_type, clock), fresh \in NewGames(game_type, clock) :
           Commit(start_game(add_channel(Store, c, game_type, fresh), c, g),
                  tasks, sweep, loader)
    /\ UNCHANGED <<call, game_type, clock>>

on_guild_remove(c) ==
    /\ loader.pc = "ready"
    /\ c \in Range(guilds)
    /\ guilds' = ListRemove(guilds, c)
    /\ Commit(IF c \in Range(channels) THEN remove_channel(Store, c) ELSE Store,
              tasks, sweep, loader)
    /\ UNCHANGED <<call, game_type, clock>>

(***************************************************************************)
(* on_message.  The check that the channel is registered and the await of  *)
(* get_context precede the first read of the session; a message is taken   *)
(* up here when get_context has returned.  rec is what the step records of *)
(* the message it was given.                                               *)
(***************************************************************************)
Message(content, author) == [op |-> "message", content |-> content, author |-> author]

\* Lines 321-324 and 780-783: persist, and restart a finished session.
\* The tail without the write of lines 321 and 780, to show what the
\* persistence of a guess owes to it.
on_message_tail_unsaved(s, c, o, type, now) ==
    IF s.heap[o].state = FINISHED
    THEN stop_game(s, c, type, now)
    ELSE [s |-> s, paused |-> FALSE]

on_message_tail(s, c, o, type, now) ==
    LET s1 == update_game(s, c, o)
    IN  IF s1.heap[o].state = FINISHED
        THEN stop_game(s1, c, type, now)
        ELSE [s |-> s1, paused |-> FALSE]

AfterTail(r, c) == IF r.paused THEN Paused(c, game_type, clock) ELSE Idle

Wordle_on_message(c, content, rec) ==
    /\ game_type = "W"
    /\ loader.pc = "ready"
    /\ c \in Range(channels)
    /\ HasFreeTask
    /\ LET guess == StripLower(content)
           o     == get_game(Store, c)
       IN  IF \/ ~IsContinue(Store, c)
              \/ Len(content) > 1
              \/ guess = <<>>
              \/ NOT_CYRILLIC_RE(guess)
           THEN UNCHANGED <<channels, games, heap, files, previous, tasks, sweep, loader>>
           ELSE /\ heap[o].guesses < MaxGuesses
                /\ LET r == WordleGame_guess(heap[o], guess)
                   IN  Commit([Store EXCEPT !.heap[o] = r.game],
                              [tasks EXCEPT ![FreeTask] =
                                  [Idle EXCEPT !.pc = IF r.emoji # "none" THEN "react" ELSE "send",
                                               !.chan = c, !.game = o,
                                               !.msg = r.msg,
                                               !.file = (r.file_obj # NoFile),
                                               !.count = r.game.guesses]],
                              sweep, loader)
    /\ call' = rec
    /\ UNCHANGED <<game_type, guilds, clock>>

\* add_reaction has returned.
Wordle_after_react(t) ==
    /\ game_type = "W"
    /\ tasks[t].pc = "react"
    /\ IF tasks[t].file
       THEN Commit(Store, [tasks EXCEPT ![t].pc = "send"], sweep, loader)
       ELSE LET r == on_message_tail(Store, tasks[t].chan, tasks[t].game, game_type, clock)
            IN  Commit(r.s, [tasks EXCEPT ![t] = AfterTail(r, tasks[t].chan)], sweep, loader)
    /\ UNCHANGED <<call, game_type, guilds, clock>>

\* channel.send has returned.
Wordle_after_send(t) ==
    /\ game_type = "W"
    /\ tasks[t].pc = "send"
    /\ LET r == on_message_tail(Store, tasks[t].chan, tasks[t].game, game_type, clock)
       IN  Commit(r.s, [tasks EXCEPT ![t] = AfterTail(r, tasks[t].chan)], sweep, loader)
    /\ UNCHANGED <<call, game_type, guilds, clock>>

Spelling_on_message(c, content, author, rec) ==
    /\ game_type = "S"
    /\ loader.pc = "ready"
    /\ c \in Range(channels)
    /\ HasFreeTask
    /\ LET guess == StripLower(content)
           o     == get_game(Store, c)
       IN  IF \/ ~IsContinue(Store, c)
              \/ Len(content) > 1
              \/ NOT_CYRILLIC_RE(guess)
           THEN UNCHANGED <<channels, games, heap, files, previous, tasks, sweep, loader>>
           ELSE LET r == SpellingGame_guess(heap[o], guess, author)
                IN  Commit([Store EXCEPT !.heap[o] = r.game],
                           [tasks EXCEPT ![FreeTask] =
                               IF r.emoji \in {"check", "books"}
                               THEN [Idle EXCEPT !.pc = "react", !.chan = c, !.game = o,
                                                 !.claim = guess, !.author = author]
                               ELSE [Idle EXCEPT !.pc = "react", !.chan = c, !.game = o]],
                           sweep, loader)
    /\ call' = rec
    /\ UNCHANGED <<game_type, guilds, clock>>

Spelling_after_react(t) ==
    /\ game_type = "S"
    /\ tasks[t].pc = "react"
    /\ LET r == on_message_tail(Store, tasks[t].chan, tasks[t].game, game_type, clock)
       IN  Commit(r.s, [tasks EXCEPT ![t] = AfterTail(r, tasks[t].chan)], sweep, loader)
    /\ UNCHANGED <<call, game_type, guilds, clock>>

(***************************************************************************)
(* The concede commands.                                                   *)
(***************************************************************************)
\* stopW up to "await ctx.send".
stopW(c) ==
    /\ game_type = "W"
    /\ loader.pc = "ready"
    /\ HasFreeTask
    /\ IsContinue(Store, c)
    /\ LET o == get_game(Store, c)
       IN  Commit(update_game([Store EXCEPT !.heap[o].state = FINISHED], c, o),
                  [tasks EXCEPT ![FreeTask] = [Idle EXCEPT !.pc = "conceded", !.chan = c, !.game = o]],
                  sweep, loader)
    /\ UNCHANGED <<call, game_type, guilds, clock>>

\* ctx.send has returned: stopW calls stop_game.
stopW_after_send(t) ==
    /\ tasks[t].pc = "conceded"
    /\ LET r == stop_game(Store, tasks[t].chan, game_type, clock)
       IN  Commit(r.s, [tasks EXCEPT ![t] = AfterTail(r, tasks[t].chan)], sweep, loader)
    /\ UNCHANGED <<call, game_type, guilds, clock>>

stopSB(c) ==
    /\ game_type = "S"
    /\ loader.pc = "ready"
    /\ HasFreeTask
    /\ LET r == stop_game(Store, c, game_type, clock)
       IN  Commit(r.s, [tasks EXCEPT ![FreeTask] = AfterTail(r, c)], sweep, loader)
    /\ UNCHANGED <<call, game_type, guilds, clock>>

\* shuffle has no await: it runs from get_game to update_game.  pick[i] is
\* None where random() >= 0.5 and otherwise the id written, one of
\* 1 + randrange(5) + choice([0, 100]): 1 and 105 are the ones drawn here.
shuffle(c) ==
    /\ game_type = "S"
    /\ loader.pc = "ready"
    /\ get_game(Store, c) # None
    /\ LET o == get_game(Store, c)
       IN  \E pick \in [1..Len(heap[o].words) -> {None, 1, 105}] :
               Commit(update_game([Store EXCEPT !.heap[o].words =
                                      [i \in 1..Len(@) |->
                                          IF pick[i] = None THEN @[i]
                                          ELSE <<@[i][1], pick[i]>>]], c, o),
                      tasks, sweep, loader)
    /\ UNCHANGED <<call, game_type, guilds, clock>>

\* The restart continuation without its start_game, to show what the end
\* of Restarting owes to it.
after_pause_returns(t) ==
    /\ tasks[t].pc = "pause"
    /\ tasks[t].wake = 0
    /\ Commit(Store, [tasks EXCEPT ![t] = Idle], sweep, loader)
    /\ UNCHANGED <<call, game_type, guilds, clock>>

\* The pause of stop_game is over: start_game.
after_pause(t) ==
    /\ tasks[t].pc = "pause"
    /\ tasks[t].wake = 0
    /\ \E g \in NewGames(game_type, clock) :
           Commit(start_game(Store, tasks[t].chan, g),
                  [tasks EXCEPT ![t] = Idle], sweep, loader)
    /\ UNCHANGED <<call, game_type, guilds, clock>>

(***************************************************************************)
(* check_deadline.  The for loop reads the list by position, so a removal  *)
(* during an await shifts the channels still to come.                      *)
(***************************************************************************)
\* The test of line 843 without the deadline, to show what the sweep's
\* timing owes to it.
Expired_always(s, c, now) == IsContinue(s, c)

Expired(s, c, now) ==
    /\ IsContinue(s, c)
    /\ now + LEEWAY >= s.heap[get_game(s, c)].deadline

ToStop(s, idx, now) ==
    {j \in (idx + 1)..Len(s.channels) : Expired(s, s.channels[j], now)}

\* check_deadline from list position idx to its next await or its end;
\* at is the time stop_game reads.
check_deadline(s, idx, now, at, next) ==
    IF ToStop(s, idx, now) = {}
    THEN [s |-> s, sweep |-> SweepIdle(IF next = 0 THEN NextHour(at) ELSE next)]
    ELSE LET j == Min(ToStop(s, idx, now))
             c == s.channels[j]
         IN  [s |-> Spelling_stop_game(s, c, at).s,
              sweep |-> [pc |-> "pause", now |-> now, idx |-> j, chan |-> c,
                         wake |-> Wake("S", at), next |-> next]]

\* The run before the loop starts at any time; an iteration of the loop
\* starts at its scheduled hour, a little early or any time later, and the
\* hour of the next one is fixed before its body runs.
check_deadline_start ==
    /\ game_type = "S"
    /\ loader.pc # "init"
    /\ sweep.pc = "idle"
    /\ clock + EarlyWake >= sweep.next
    /\ LET next == IF sweep.next = 0 THEN 0
                   ELSE IF clock < sweep.next THEN sweep.next + HOUR
                   ELSE NextHour(clock)
           r    == check_deadline(Store, 0, clock, clock, next)
       IN  Commit(r.s, tasks, r.sweep, loader)
    /\ UNCHANGED <<call, game_type, guilds, clock>>

\* The pause of the sweep's stop_game is over: start_game, and, when the
\* channel is gone, straight on with the loop.
check_deadline_after_pause ==
    /\ sweep.pc = "pause"
    /\ sweep.wake = 0
    /\ IF sweep.chan \in Range(channels)
       THEN \E g \in NewGames(game_type, clock) :
                Commit(start_game(Store, sweep.chan, g), tasks,
                       [sweep EXCEPT !.pc = "announce"], loader)
       ELSE LET r == check_deadline(Store, sweep.idx, sweep.now, clock, sweep.next)
            IN  Commit(r.s, tasks, r.sweep, loader)
    /\ UNCHANGED <<call, game_type, guilds, clock>>

check_deadline_resume ==
    /\ sweep.pc = "announce"
    /\ LET r == check_deadline(Store, sweep.idx, sweep.now, clock, sweep.next)
       IN  Commit(r.s, tasks, r.sweep, loader)
    /\ UNCHANGED <<call, game_type, guilds, clock>>

(***************************************************************************)
(* The environment: time, and the end of the process.                      *)
(***************************************************************************)
\* A sleep whose time has come is ready to return: its wake time is 0.
Ring(r, now) == IF r.wake <= now THEN [r EXCEPT !.wake = 0] ELSE r

Tick(points) ==
    /\ game_type = "S"
    /\ \E p \in points :
           /\ p > clock
           /\ clock' = p
           /\ tasks' = [t \in Tasks |-> Ring(tasks[t], p)]
           /\ sweep' = Ring(sweep, p)
    /\ UNCHANGED <<call, game_type, guilds, channels, games, heap, files, previous, loader>>

\* A command that writes c's snapshot can be running.
Writable(c) == loader.pc = "ready" /\ IsContinue(Store, c)

\* The process dies, perhaps inside a write of one snapshot.
Crash ==
    /\ loader.pc # "init"
    /\ \/ files' = files
       \/ \E c \in Chans : Writable(c) /\ files' = [files EXCEPT ![c] = Malformed]
    /\ channels' = <<>>
    /\ games' = <<>>
    /\ heap' = [o \in ObjIds |-> NoObj]
    /\ tasks' = [t \in Tasks |-> Idle]
    /\ sweep' = SweepIdle(0)
    /\ loader' = Loader("init", 0)
    /\ UNCHANGED <<call, game_type, guilds, previous, clock>>

Init ==
    /\ game_type \in {"W", "S"}
    /\ guilds = [i \in 1..NumBusy |-> i]
    /\ channels = <<>>
    /\ games = <<>>
    /\ heap = [o \in ObjIds |-> NoObj]
    /\ files = [c \in Chans |-> Absent]
    /\ previous = [c \in Chans |-> Absent]
    /\ clock = StartClock
    /\ tasks = [t \in Tasks |-> Idle]
    /\ sweep = SweepIdle(0)
    /\ loader = Loader("init", 0)
    /\ call = NoCall

\* One channel: its messages, its concede commands and the sweep.
Next ==
    \/ Cog_init
    \/ Cog_load_resume
    \/ \E c \in Busy, content \in Contents : Wordle_on_message(c, content, call)
    \/ \E t \in Tasks : Wordle_after_react(t)
    \/ \E t \in Tasks : Wordle_after_send(t)
    \/ \E c \in Busy, content \in Contents, author \in Authors :
           Spelling_on_message(c, content, author, call)
    \/ \E t \in Tasks : Spelling_after_react(t)
    \/ \E c \in Busy : stopW(c)
    \/ \E t \in Tasks : stopW_after_send(t)
    \/ \E c \in Busy : stopSB(c)
    \/ \E t \in Tasks : after_pause(t)
    \/ check_deadline_start
    \/ check_deadline_after_pause
    \/ check_deadline_resume
    \/ Tick(EnginePoints)

Spec == Init /\ [][Next]_vars

(***************************************************************************)
(* The fleet: every guild's channel, with the disk as an earlier run of    *)
(* the bot can have left it, and no messages.                              *)
(***************************************************************************)
WordleSaved ==
    {json_dump([type |-> "W", state |-> st, guesses |-> n, solution |-> slovo]) :
        st \in {CONTINUE, FINISHED, RESTARTING}, n \in {1}}

SpellingSaved ==
    LET g0 == SpellingGame_init(StartClock, skovorodka)
        g1 == SpellingGame_guess(g0, vor, 1001).game
        g2 == SpellingGame_guess(g1, kod, 1001).game
    IN  {json_dump(g0), json_dump(g1), json_dump(g2),
         json_dump([g1 EXCEPT !.state = RESTARTING])}

Saved(type) == {Absent, Malformed} \cup (IF type = "W" THEN WordleSaved ELSE SpellingSaved)

FleetInit ==
    /\ game_type \in {"W", "S"}
    /\ guilds = [i \in 1..NumChans |-> i]
    /\ channels = <<>>
    /\ games = <<>>
    /\ heap = [o \in ObjIds |-> NoObj]
    /\ files \in [Chans -> Saved(game_type)]
    /\ previous = [c \in Chans |-> Absent]
    /\ clock = StartClock
    /\ tasks = [t \in Tasks |-> Idle]
    /\ sweep = SweepIdle(0)
    /\ loader = Loader("init", 0)
    /\ call = NoCall

FleetNext ==
    \/ Cog_init
    \/ Cog_load_resume
    \/ \E c \in Chans : on_guild_join(c)
    \/ \E c \in Chans : on_guild_remove(c)
    \/ check_deadline_start
    \/ check_deadline_after_pause
    \/ check_deadline_resume
    \/ Tick(FleetPoints)
    \/ Crash

SpecFleet == FleetInit /\ [][FleetNext]_vars

(***************************************************************************)
(* One session and the calls made on it: the constructor, guess, and the   *)
(* message handlers, with every call recorded.                             *)
(***************************************************************************)
\* The strings guess() is given: the corpus, a word outside it, nothing.
Words == Range(all_words) \cup {aaaaa, <<>>}

\* game_type(): the constructor, for a session that is not installed, when
\* datetime.now() is now.
Game_init(now) ==
    /\ \E g \in NewGames(game_type, now) :
           call' = [op |-> "new", now |-> now, game |-> g]
    /\ UNCHANGED <<game_type, guilds, channels, games, heap, files, previous, clock,
                   tasks, sweep, loader>>

\* game.guess(guess) and game.guess(guess, author) on c's session, called
\* as the handlers call it: on a session in Continue.
Game_guess(c, guess, author) ==
    /\ IsContinue(Store, c)
    /\ LET o == get_game(Store, c)
           r == IF game_type = "W" THEN WordleGame_guess(heap[o], guess)
                ELSE SpellingGame_guess(heap[o], guess, author)
       IN  /\ game_type = "W" => heap[o].guesses < MaxGuesses
           /\ heap' = [heap EXCEPT ![o] = r.game]
           /\ call' = [op |-> "guess", guess |-> guess, author |-> author,
                       game |-> heap[o], ret |-> r]
    /\ UNCHANGED <<game_type, guilds, channels, games, files, previous, clock,
                   tasks, sweep, loader>>

UnitInit ==
    /\ game_type \in {"W", "S"}
    /\ guilds = [i \in 1..NumBusy |-> i]
    /\ clock = StartClock
    /\ \E g \in NewGames(game_type, clock) :
           LET s == add_game([channels |-> guilds, games |-> <<>>,
                              heap |-> [o \in ObjIds |-> NoObj],
                              files |-> [c \in Chans |-> Absent],
                              previous |-> [c \in Chans |-> Absent]], 1, g)
           IN  /\ channels = s.channels
               /\ games = s.games
               /\ heap = s.heap
               /\ files = s.files
               /\ previous = s.previous
    /\ tasks = [t \in Tasks |-> Idle]
    /\ sweep = SweepIdle(NextHour(StartClock))
    /\ loader = Loader("ready", 0)
    /\ call = NoCall

UnitNext ==
    \/ Game_init(clock)
    \/ \E c \in Busy, guess \in Words, author \in MemberIds : Game_guess(c, guess, author)
    \/ \E c \in Busy, content \in Contents :
           Wordle_on_message(c, content, Message(content, 0))
    \/ \E t \in Tasks : Wordle_after_react(t)
    \/ \E t \in Tasks : Wordle_after_send(t)
    \/ \E c \in Busy, content \in Contents, author \in Authors :
           Spelling_on_message(c, content, author, Message(content, author))
    \/ \E t \in Tasks : Spelling_after_react(t)

SpecUnit == UnitInit /\ [][UnitNext]_vars

(***************************************************************************)
(* One Spelling session and everything that works on its attributions:     *)
(* guess, shuffle and winners_and_losers, with the constructor at several  *)
(* times of day and the guild as it is when the teams are made up.         *)
(***************************************************************************)
\* game.winners_and_losers(guild) on c's session.
Game_winners_and_losers(c, guild) ==
    /\ get_game(Store, c) # None
    /\ LET g == heap[get_game(Store, c)]
       IN  call' = [op |-> "winners", game |-> g, guild |-> guild,
                   ret |-> winners_and_losers(g, guild)]
    /\ UNCHANGED <<game_type, guilds, channels, games, heap, files, previous, clock,
                   tasks, sweep, loader>>

BeeInit == UnitInit /\ game_type = "S"

\* datetime.now() is read within an hour, on the hour, and a second before
\* the next; the guild is as it is when the teams are made up: a member
\* who has guessed can have left since.
BeeNext ==
    \/ \E now \in {StartClock, HOUR, 2 * HOUR - 1} : Game_init(now)
    \/ \E c \in Busy, guess \in Words, author \in MemberIds : Game_guess(c, guess, author)
    \/ \E c \in Busy : shuffle(c)
    \/ \E c \in Busy, guild \in SUBSET MemberIds : Game_winners_and_losers(c, guild)

SpecBee == BeeInit /\ [][BeeNext]_vars

(***************************************************************************)
(* One channel whose guild can remove the bot and add it again while the   *)
(* channel's messages, concede commands and restarts are under way.        *)
(***************************************************************************)
\* The messages sent here: to the Wordle cog a guess it counts, to the
\* Spelling cog the two solution words.
LiveGuesses(type) == IF type = "W" THEN {<<slovo>>} ELSE {<<vor>>, <<kod>>}

\* The instants sampled: the start and the end of a pause begun then.
PausePoints == {StartClock, StartClock + PAUSE}

GuildNext ==
    \/ Cog_init
    \/ Cog_load_resume
    \/ \E c \in Busy : on_guild_join(c)
    \/ \E c \in Busy : on_guild_remove(c)
    \/ \E c \in Busy, content \in LiveGuesses("W") : Wordle_on_message(c, content, call)
    \/ \E t \in Tasks : Wordle_after_react(t)
    \/ \E t \in Tasks : Wordle_after_send(t)
    \/ \E c \in Busy, content \in LiveGuesses("S"), author \in Authors :
           Spelling_on_message(c, content, author, call)
    \/ \E t \in Tasks : Spelling_after_react(t)
    \/ \E c \in Busy : stopW(c)
    \/ \E t \in Tasks : stopW_after_send(t)
    \/ \E c \in Busy : stopSB(c)
    \/ \E t \in Tasks : after_pause(t)
    \/ Tick(PausePoints)

SpecGuild == Init /\ [][GuildNext]_vars

(***************************************************************************)
(* Two channels with their messages, concede commands and restarts, where  *)
(* a pause that has begun comes to its end: time passes, and a coroutine   *)
(* whose sleep has returned is scheduled.                                  *)
(***************************************************************************)
\* Time passes beyond the last sampled instant, where the clock is read as
\* that instant from then on: every sleep that is under way returns.
Later(points) ==
    /\ \A p \in points : p <= clock
    /\ tasks' = [t \in Tasks |-> [tasks[t] EXCEPT !.wake = 0]]
    /\ sweep' = [sweep EXCEPT !.wake = 0]
    /\ UNCHANGED <<call, game_type, guilds, channels, games, heap, files, previous,
                   clock, loader>>

LiveInit ==
    /\ game_type \in {"W", "S"}
    /\ guilds = [i \in 1..NumChans |-> i]
    /\ channels = <<>>
    /\ games = <<>>
    /\ heap = [o \in ObjIds |-> NoObj]
    /\ files = [c \in Chans |-> Absent]
    /\ previous = [c \in Chans |-> Absent]
    /\ clock = StartClock
    /\ tasks = [t \in Tasks |-> Idle]
    /\ sweep = SweepIdle(0)
    /\ loader = Loader("init", 0)
    /\ call = NoCall

\* Channel 1 is conceded; the other channels receive the messages.
LiveNext ==
    \/ Cog_init
    \/ Cog_load_resume
    \/ \E c \in Chans \ Busy, content \in LiveGuesses("W") : Wordle_on_message(c, content, call)
    \/ \E t \in Tasks : Wordle_after_react(t)
    \/ \E t \in Tasks : Wordle_after_send(t)
    \/ \E c \in Chans \ Busy, content \in LiveGuesses("S"), author \in Authors :
           Spelling_on_message(c, content, author, call)
    \/ \E t \in Tasks : Spelling_after_react(t)
    \/ \E c \in Busy : stopW(c)
    \/ \E t \in Tasks : stopW_after_send(t)
    \/ \E c \in Busy : stopSB(c)
    \/ \E t \in Tasks : after_pause(t)
    \/ Tick(PausePoints)
    \/ Later(PausePoints)

\* The event loop runs a coroutine whose sleep has returned, and time
\* passes.
SpecLive ==
    /\ LiveInit
    /\ [][LiveNext]_vars
    /\ \A t \in Tasks : WF_vars(after_pause(t))
    /\ WF_vars(Tick(PausePoints))
    /\ WF_vars(Later(PausePoints))

(***************************************************************************)
(* Properties.                                                             *)
(***************************************************************************)
Live(o) == heap[o] # NoObj

Session(c) == heap[games[c]]

HasSession(c) == c \in DOMAIN games /\ games[c] # None

InHandler(t) == tasks[t].pc \in {"react", "send"}

\* C1: stop_game, in either cog, called for a channel whose current session
\* is already Restarting changes nothing (the session, the session table,
\* the snapshot and the archive) and does not go on to the pause and
\* start_game, so it creates no session.
C1_RestartingIsNoOp ==
    \A c \in Chans :
        (HasSession(c) /\ Session(c).state = RESTARTING) =>
            stop_game(Store, c, game_type, clock) = [s |-> Store, paused |-> FALSE]

\* stopW is about to call stop_game and finds the session Restarting.
C1_Witness ==
    \E t \in Tasks :
        /\ tasks[t].pc = "conceded"
        /\ HasSession(tasks[t].chan)
        /\ Session(tasks[t].chan).state = RESTARTING

\* C2: one game-ending event causes one restart: the stop_game that stopW
\* calls after its await restarts the session stopW conceded, never a
\* session installed since.
C2_OneRestartPerEnding ==
    [][\A t \in Tasks :
          (tasks[t].pc = "conceded" /\ tasks'[t].pc = "pause") =>
              games[tasks[t].chan] = tasks[t].game]_vars

\* C3: while a guess handler is suspended between its mutation of the
\* session and its snapshot write, nothing else changes that session, the
\* channel's table entry or the channel's snapshot.
C3_HandlerExclusive ==
    [][\A t \in Tasks :
          (InHandler(t) /\ tasks'[t] = tasks[t]) =>
              /\ heap'[tasks[t].game] = heap[tasks[t].game]
              /\ files'[tasks[t].chan] = files[tasks[t].chan]
              /\ games' = games]_vars

\* C4: a session is put into Restarting only from Finished.
C4_FinishedBeforeRestarting ==
    [][\A o \in ObjIds :
          (Live(o) /\ heap[o].state # RESTARTING /\ heap'[o] # NoObj
                   /\ heap'[o].state = RESTARTING) =>
              heap[o].state = FINISHED]_vars

\* A sweep step that ends the sweep, and the time the sweep read.
SweepEnds ==
    /\ sweep'.pc = "idle"
    /\ sweep' # sweep
    /\ clock' = clock
    /\ loader'.pc # "init"

SweepNow == IF sweep.pc = "idle" THEN clock ELSE sweep.now

\* A sweep step that calls stop_game for the channel sweep'.chan.
SweepForces ==
    /\ sweep'.pc = "pause"
    /\ sweep' # sweep
    /\ clock' = clock

\* C5: when a sweep run at time now ends, no registered channel is left
\* with a Continue session whose deadline is at most now + 1: none was
\* skipped.
C5_NoneSkipped ==
    [][SweepEnds =>
          \A c \in Range(channels') :
              (games'[c] # None /\ heap'[games'[c]].state = CONTINUE) =>
                  heap'[games'[c]].deadline > SweepNow + LEEWAY]_vars

\* C6 as stated: the sweep ends a Continue session only at a time at or
\* after the session's deadline.
C6_NeverBeforeDeadline ==
    [][SweepForces => sweep'.now >= Session(sweep'.chan).deadline]_vars

\* C6: the sweep ends a Continue session only at a time at or after one
\* second before the session's deadline.
C6_NeverBeforeLeeway ==
    [][SweepForces => sweep'.now + 1 >= Session(sweep'.chan).deadline]_vars

\* The sweep has ended a session one second before its deadline.
C6_Witness ==
    /\ sweep.pc = "pause"
    /\ HasSession(sweep.chan)
    /\ Session(sweep.chan).state = RESTARTING
    /\ sweep.now + 1 = Session(sweep.chan).deadline

\* What the snapshot a handler leaves must hold of the guess it applied.
Attribution(g, word) ==
    IF DictHas(g.words, word) THEN DictGet(g.words, word)
    ELSE DictGet(g.other_words, word)

HoldsGuess(t, g) ==
    IF g.type = "W"
    THEN /\ tasks[t].file => g.guesses >= tasks[t].count
         /\ tasks[t].msg => g.state # CONTINUE
    ELSE /\ tasks[t].claim # <<>> => Attribution(g, tasks[t].claim) = tasks[t].author
         /\ (\A i \in 1..Len(g.words) : Truthy(g.words[i][2])) => g.state # CONTINUE

C8_FileAsNewAsMemory ==
    \A c \in Range(channels) :
        HasSession(c) => files[c] = json_dump(Session(c))

\* Startup: the step that constructs the cog (add_channel for every guild)
\* and enters cog_load, the steps cog_load is suspended over, and the step
\* in which cog_load returns.
Constructs == loader.pc = "init" /\ loader'.pc # "init"

Loading == loader.pc = "announce" /\ loader'.pc # "init"

Returns == loader.pc # "ready" /\ loader'.pc = "ready"

ContinueDoc(j) == j.t = "obj" /\ Len(j.v) > 0 /\ JGet(j, "state").v = CONTINUE

\* The session of c after the step.
SessionAfter(c) == heap'[games'[c]]

FreshAfter(c) ==
    /\ games'[c] # None
    /\ SessionAfter(c) \in NewGames(game_type, clock)

\* The construction resumes every Continue snapshot exactly, and cog_load
\* gives the other channels it comes to a new session.
ResumesExactly ==
    Constructs =>
        \A c \in Range(guilds) :
            /\ c \in Range(channels')
            /\ IF ContinueDoc(files[c])
               THEN /\ games'[c] # None
                    /\ SessionAfter(c) = FromDict(game_type, files[c])
               ELSE \/ FreshAfter(c)
                    \/ games'[c] = None
                    \/ SessionAfter(c).state # CONTINUE

\* While cog_load is suspended a Continue session stays as it is, and any
\* other channel keeps what it has or gets a new session.
KeptWhileLoading ==
    Loading =>
        \A c \in Range(channels) :
            IF IsContinue(Store, c)
            THEN games'[c] # None /\ SessionAfter(c) = Session(c)
            ELSE \/ FreshAfter(c)
                 \/ games'[c] = None /\ games[c] = None
                 \/ games'[c] # None /\ games[c] # None /\ SessionAfter(c) = Session(c)

\* C9: startup resumes every Continue snapshot exactly and keeps it, and
\* when cog_load returns every registered channel has a session in
\* Continue, the one its snapshot held or else a new one.
C9_AllContinueAfterStartup ==
    [][/\ ResumesExactly
       /\ KeptWhileLoading
       /\ Returns =>
              \A c \in Range(channels') :
                  games'[c] # None /\ SessionAfter(c).state = CONTINUE]_vars

\* C10: a session written by update_game and read back by the constructor
\* is the same session, and every guess gives the same signal and the same
\* next session on it.
Guesses == {StripLower(content) : content \in {x \in Contents : Len(x) <= 1}}

C11_ContinueNeverReplaced ==
    [][\A c \in Range(channels) :
          (IsContinue(Store, c) /\ c \in Range(channels')) =>
              games'[c] = games[c]]_vars

\* c is registered and has a session and a snapshot after the step.
KeepsSession(c) ==
    /\ c \in DOMAIN games'
    /\ games'[c] # None
    /\ heap'[games'[c]] # NoObj
    /\ files'[c].t = "obj"

\* C12: a registered channel that has a session has a snapshot file, and
\* keeps a session and a snapshot file over every step that leaves it
\* registered (a restart replaces the session, it does not take it away);
\* the step that takes the bot out of a guild leaves the guild's channel
\* off the list and without table entry and snapshot file.
C12_DestroyedOnlyByRemoval ==
    [][/\ \A c \in Range(channels') :
              (c \in DOMAIN games' /\ games'[c] # None) => KeepsSession(c)
       /\ \A c \in Range(channels) :
              (HasSession(c) /\ c \in Range(channels')) => KeepsSession(c)
       /\ \A c \in Range(channels) :
              (c \in Range(guilds) /\ c \notin Range(guilds')) =>
                  /\ c \notin Range(channels')
                  /\ c \notin DOMAIN games'
                  /\ files'[c] = Absent]_vars

\* The bot has left a guild: its channel is gone from the list, the table
\* and the disk, and the other channel keeps its session and snapshot.
C12_Witness ==
    /\ loader.pc = "ready"
    /\ \E c \in Chans, d \in Range(channels) :
           /\ c \notin Range(guilds)
           /\ c \notin Range(channels)
           /\ c \notin DOMAIN games
           /\ files[c] = Absent
           /\ HasSession(d)
           /\ files[d] = json_dump(Session(d))

\* c is registered after the step, with no session and no snapshot file.
NoSessionAfter(c) ==
    /\ c \in Range(channels')
    /\ games'[c] = None
    /\ files'[c] = Absent

\* c is registered after the step, with a new Continue session and its
\* snapshot.
StartedAfter(c) ==
    /\ c \in Range(channels')
    /\ FreshAfter(c)
    /\ SessionAfter(c).state = CONTINUE
    /\ files'[c] = json_dump(SessionAfter(c))

Ignorable(content) ==
    \/ Len(content) > 1
    \/ StripLower(content) = <<>>
    \/ NOT_CYRILLIC_RE(StripLower(content))

\* C14: in both cogs the handler of a message that is multi-token, empty
\* after trimming or has a character outside the alphabet changes nothing:
\* it does not call guess, starts no reaction or reply, and leaves the
\* session and its snapshot as they are.
C14_BadMessageIgnored ==
    [][(call' # call /\ call'.op = "message" /\ Ignorable(call'.content)) =>
          UNCHANGED <<channels, games, heap, files, previous, tasks>>]_vars

\* A recorded call of WordleGame.guess, its session, its guess and the
\* colours it returned.
WordleCall == call.op = "guess" /\ call.game.type = "W"

Counted == /\ Len(call.guess) = Len(call.game.solution)
           /\ InList(call.guess, all_words)

Colors == call.ret.file_obj

Positions(colors, guess, x, kinds) ==
    {j \in 1..Len(guess) : guess[j] = x /\ colors[j] \in kinds}

\* C15: for a corpus guess of the solution's length, WordleGame.guess gives
\* a colour to every position and gives position i Correct if and only if
\* the guess and the solution have the same letter there.
C15_CorrectIffSameLetter ==
    (WordleCall /\ Counted) =>
        /\ Len(Colors) = Len(call.game.solution)
        /\ \A i \in 1..Len(call.guess) :
               Colors[i] = COLOR_CORRECT <=> call.game.solution[i] = call.guess[i]

\* The guess has the solution's letter at one position and not at others.
C15_Witness ==
    /\ WordleCall
    /\ call.game.solution = oslik
    /\ call.guess = ssora
    /\ Colors[2] = COLOR_CORRECT
    /\ Colors[1] # COLOR_CORRECT

\* C16: for a corpus guess of the solution's length and every letter x, at
\* most as many positions holding x are Correct or Present as the solution
\* has x; a position that does not match is Present exactly when the
\* solution's count of its letter, less the Correct positions of that
\* letter and the earlier Present positions of that letter, is positive,
\* and Absent otherwise.
C16_PresentByTally ==
    (WordleCall /\ Counted) =>
        LET S == call.game.solution
            G == call.guess
        IN  /\ \A x \in ALPHABET :
                   Cardinality(Positions(Colors, G, x, {COLOR_CORRECT, COLOR_PRESENT}))
                       <= Count(S, x)
            /\ \A i \in 1..Len(G) :
                   G[i] # S[i] =>
                       LET left == Count(S, G[i])
                                   - Cardinality(Positions(Colors, G, G[i], {COLOR_CORRECT}))
                                   - Cardinality({j \in Positions(Colors, G, G[i], {COLOR_PRESENT}) : j < i})
                       IN  Colors[i] = IF left > 0 THEN COLOR_PRESENT ELSE COLOR_ABSENT

\* The guess has a letter twice that the solution has once: misplaced
\* first, where it is Present, and again, where it is Absent.
C16_Witness ==
    /\ WordleCall
    /\ call.game.solution = volos
    /\ call.guess = ssora
    /\ Colors[1] = COLOR_PRESENT
    /\ Colors[2] = COLOR_ABSENT

\* C17 as stated: for the solution slovo and the guess slava, positions 1
\* and 2 are Correct, position 3 is Absent or Present, position 4 is Absent
\* and position 5 is Present or Absent.
C17_FourthAbsent ==
    (WordleCall /\ call.game.solution = slovo /\ call.guess = slava) =>
        /\ Colors[1] = COLOR_CORRECT
        /\ Colors[2] = COLOR_CORRECT
        /\ Colors[3] \in {COLOR_ABSENT, COLOR_PRESENT}
        /\ Colors[4] = COLOR_ABSENT
        /\ Colors[5] \in {COLOR_PRESENT, COLOR_ABSENT}

\* C17: for the solution slovo and the guess slava, positions 1, 2 and 4
\* are Correct and positions 3 and 5 are Absent.
C17_FourthCorrect ==
    (WordleCall /\ call.game.solution = slovo /\ call.guess = slava) =>
        Colors = <<COLOR_CORRECT, COLOR_CORRECT, COLOR_ABSENT,
                   COLOR_CORRECT, COLOR_ABSENT>>

\* guess has been called with slava on a session whose solution is slovo.
C17_Witness ==
    /\ WordleCall
    /\ call.game.solution = slovo
    /\ call.guess = slava
    /\ Len(Colors) = Len(slovo)

\* C18: a guess of another length than the solution returns the
\* wrong-length signal, a guess of that length outside the corpus the
\* unknown-word signal, and both leave the session as it was; every other
\* guess adds exactly one to guesses; the state becomes Finished exactly
\* when the guess is the solution and is otherwise as before; guesses does
\* not decrease and the solution stays.
C18_GuessEffect ==
    WordleCall =>
        LET g == call.game
            h == call.ret.game
        IN  /\ Len(call.guess) # Len(g.solution) =>
                   call.ret.emoji = "wrong_length" /\ h = g
            /\ (Len(call.guess) = Len(g.solution) /\ ~InList(call.guess, all_words)) =>
                   call.ret.emoji = "unknown" /\ h = g
            /\ Counted => h.guesses = g.guesses + 1
            /\ h.state = IF call.guess = g.solution THEN FINISHED ELSE g.state
            /\ h.guesses >= g.guesses
            /\ h.solution = g.solution

\* A second guess was the solution: the session it was called on was in
\* Continue with one guess counted and is left Finished with two.
C18_Witness ==
    /\ WordleCall
    /\ call.guess = call.game.solution
    /\ call.game.state = CONTINUE
    /\ call.game.guesses = 1
    /\ call.ret.game.state = FINISHED
    /\ call.ret.game.guesses = 2

\* A recorded construction of a SpellingGame, and a recorded call of
\* SpellingGame.guess.
SpellingNew == call.op = "new" /\ call.game.type = "S"

SpellingCall == call.op = "guess" /\ call.game.type = "S"

Keys(d) == {d[i][1] : i \in 1..Len(d)}

\* word can be spelled with the letters of root, each used no more often
\* than root has it.
Spellable(word, root) ==
    \A x \in ALPHABET : Count(word, x) <= Count(root, x)

\* C19: a new SpellingGame has a word in its words or other_words map if
\* and only if it is a corpus word of 3 to 7 letters that has no letter
\* more often than the root word has it; such a word is in words if it is
\* a common word and in other_words otherwise; no word is in both maps or
\* twice in one, and every attribution is None.
C19_MapsOfNewGame ==
    SpellingNew =>
        LET g == call.game
        IN  /\ \A w \in Range(all_words) \cup Keys(g.words) \cup Keys(g.other_words) \cup {aaaaa} :
                   LET qualifies == /\ InList(w, all_words)
                                    /\ MIN_LENGTH <= Len(w)
                                    /\ Len(w) <= MAX_LENGTH
                                    /\ Spellable(w, g.root_word)
                   IN  /\ w \in Keys(g.words) <=> (qualifies /\ InList(w, common_words))
                       /\ w \in Keys(g.other_words) <=> (qualifies /\ ~InList(w, common_words))
            /\ Keys(g.words) \cap Keys(g.other_words) = {}
            /\ Cardinality(Keys(g.words)) = Len(g.words)
            /\ Cardinality(Keys(g.other_words)) = Len(g.other_words)
            /\ \A i \in 1..Len(g.words) : g.words[i][2] = None
            /\ \A i \in 1..Len(g.other_words) : g.other_words[i][2] = None

\* A new session whose root has the letter 19 once: the corpus word with
\* that letter twice is in neither map, a common word is in words, a word
\* that is not common in other_words, and a word of two letters in neither.
C19_Witness ==
    /\ SpellingNew
    /\ Count(call.game.root_word, 19) = 1
    /\ ssora \notin Keys(call.game.words) \cup Keys(call.game.other_words)
    /\ vor \in Keys(call.game.words)
    /\ voda \in Keys(call.game.other_words)
    /\ da \notin Keys(call.game.words) \cup Keys(call.game.other_words)

AllFound(g) == \A i \in 1..Len(g.words) : g.words[i][2] # None

C21_AllFoundIsFinished ==
    \A o \in ObjIds :
        (Live(o) /\ heap[o].type = "S" /\ AllFound(heap[o])) =>
            heap[o].state \in {FINISHED, RESTARTING}

\* The attribution of every word of both maps.
Slots(g) == g.words \o g.other_words

\* C22: guess of a word whose slot in words or other_words is attributed
\* returns the already-claimed signal and leaves the session as it was,
\* whoever guesses; and no guess changes an attribution that is set.
C22_ClaimedStaysClaimed ==
    SpellingCall =>
        LET g == call.game
            h == call.ret.game
        IN  /\ (DictHas(Slots(g), call.guess) /\ DictGet(Slots(g), call.guess) # None) =>
                   call.ret.emoji = "repeat" /\ h = g
            /\ \A i \in 1..Len(Slots(g)) :
                   Slots(g)[i][2] # None => Slots(h)[i] = Slots(g)[i]

\* A member guesses a word that another member holds.
C22_Witness ==
    /\ SpellingCall
    /\ DictHas(Slots(call.game), call.guess)
    /\ DictGet(Slots(call.game), call.guess) \in MemberIds \ {call.author}
    /\ call.ret.emoji = "repeat"

\* The cohort line 494 to 513 put a contributor in, for the guild given.
Cohort(user_id, guild) ==
    IF user_id \in 1..19 THEN "natives"
    ELSE IF user_id \in 101..119 THEN "learners"
    ELSE IF user_id \notin guild THEN "nobody"
    ELSE IF HasNativeRole(user_id) THEN "natives"
    ELSE "learners"

\* The number of attributed words of a cohort.
Score(g, guild, cohort) ==
    Cardinality({i \in 1..Len(Slots(g)) :
                    Slots(g)[i][2] # None /\ Cohort(Slots(g)[i][2], guild) = cohort})

\* C23: winners_and_losers returns no pair exactly when both cohorts have
\* score zero; otherwise it returns the two cohorts' teams, one as winner
\* and one as loser, each with its cohort's score, the winner's score at
\* least the loser's, and the learners as winner on equal scores.
C23_OneWinnerOneLoser ==
    call.op = "winners" =>
        LET n == Score(call.game, call.guild, "natives")
            l == Score(call.game, call.guild, "learners")
            r == call.ret
        IN  /\ r.found <=> ~(n = 0 /\ l = 0)
            /\ r.found =>
                   /\ {r.winners.name, r.losers.name} = {"natives", "learners"}
                   /\ r.winners.name # r.losers.name
                   /\ r.winners.score = IF r.winners.name = "natives" THEN n ELSE l
                   /\ r.losers.score = IF r.losers.name = "natives" THEN n ELSE l
                   /\ r.winners.score >= r.losers.score
                   /\ n = l => r.winners.name = "learners"

\* The two cohorts have one word each: the learners win the tie.
C23_Witness ==
    /\ call.op = "winners"
    /\ call.ret.found
    /\ call.ret.winners.score = 1
    /\ call.ret.losers.score = 1
    /\ call.ret.winners.name = "learners"

\* C24: winners_and_losers counts every attributed word in exactly one
\* cohort's score: the two scores add up to the number of words of both
\* maps that have an attribution.
C24_EveryWordCounted ==
    call.op = "winners" =>
        LET total == IF call.ret.found
                     THEN call.ret.winners.score + call.ret.losers.score
                     ELSE 0
            g     == call.game
        IN  total = Cardinality({i \in 1..Len(Slots(g)) : Slots(g)[i][2] # None})

\* C25 as stated: the deadline of a new Spelling session is the first whole
\* hour after its creation plus 24 hours, more than 24 and at most 25 hours
\* after the creation.
C25_NextHourPlusDay ==
    SpellingNew =>
        /\ call.game.deadline = NextHour(call.now) + DAY_HOURS * HOUR
        /\ call.game.deadline - call.now > DAY_HOURS * HOUR
        /\ call.game.deadline - call.now <= (DAY_HOURS + 1) * HOUR

\* C26: the step of the restart sequence that puts a Spelling session into
\* Restarting writes the channel's archive, and the archive then holds that
\* session.
C26_ArchivedOnRestart ==
    [][\A c \in Range(channels) :
          (/\ game_type = "S"
           /\ HasSession(c)
           /\ Session(c).state # RESTARTING
           /\ heap'[games[c]] # NoObj
           /\ heap'[games[c]].state = RESTARTING) =>
              /\ previous'[c].t = "previous"
              /\ previous'[c].game = json_dump(heap'[games[c]])]_vars


\* C28: whenever no handler is in progress for a registered channel that
\* has a session (no handler, command or sweep is suspended on it and
\* cog_load has returned), the channel's snapshot is the dump of that
\* session: a handler that began on an earlier session has not written
\* over it.
C28_SnapshotIsSession ==
    \A c \in Range(channels) :
        (/\ loader.pc = "ready"
         /\ \A t \in Tasks : tasks[t].pc # "idle" => tasks[t].chan # c
         /\ sweep.pc # "idle" => sweep.chan # c
         /\ HasSession(c)) => files[c] = json_dump(Session(c))


\* C29: a channel that is not registered has no snapshot file and no entry
\* in the session table: nothing that was in flight when the channel was
\* removed puts either back.
C29_NothingLeftOfRemoved ==
    \A c \in Chans :
        c \notin Range(channels) => (files[c] = Absent /\ c \notin DOMAIN games)


\* on_message takes up a message of channel d as a guess: it calls guess()
\* and goes on to its reply.
GuessTaken(d) ==
    /\ \E content \in LiveGuesses(game_type), author \in Authors :
           \/ Wordle_on_message(d, content, call)
           \/ Spelling_on_message(d, content, author, call)
    /\ \E t \in Tasks :
           /\ tasks[t].pc = "idle"
           /\ tasks'[t].pc \in {"react", "send"}
           /\ tasks'[t].chan = d

=============================================================================
